---- MODULE Spec2Model ----
(***************************************************************************)
(* Model of _hardsubs_extract.py: process_video scans a video frame by     *)
(* frame, binarises a region of interest and writes a screenshot whenever  *)
(* new white text appears (white-pixel gate, 1000 ms gap, mask difference).*)
(*                                                                         *)
(* Images are records [shape |-> <<rows, cols>>, data |-> rows of pixels]. *)
(* A colour pixel is <<b, g, r>>, a gray or mask pixel is a number 0..255. *)
(* Times are integer milliseconds.  Ratios are kept as <<num, den>>.       *)
(***************************************************************************)
EXTENDS Integers, Sequences, FiniteSets, TLC

\* ---------------------------------------------------------------- bounds
\* The number of frames a capture supplies at most (first read included).
MaxFrames == 4
\* Timestamps offered by an unconstrained capture are k * 500 ms, k <= MaxTick.
MaxTick == 5

\* ------------------------------------------------------ program constants
\* default of the white_threshold parameter
DefaultWhiteThreshold == 200
\* the minimum gap between two saved frames, in ms
MinGapMs == 1000
\* the maxval handed to cv2.threshold, and the divisor of the mean difference
MaskMax == 255

\* None, in the form of an image record so that it compares with images
None == [shape |-> <<>>, data |-> <<>>]

\* ----------------------------------------------------------------- images
Rows(img) == img.shape[1]
Cols(img) == img.shape[2]
\* ndarray.size
Size(img) == Rows(img) * Cols(img)

RECURSIVE SumSeq(_)
SumSeq(s) == IF s = <<>> THEN 0 ELSE Head(s) + SumSeq(Tail(s))

\* the sum of all pixels of a gray image
SumImg(img) == SumSeq([r \in 1..Rows(img) |-> SumSeq(img.data[r])])

\* Python's slice a[s:e] of a sequence of length n, as the pair <<lo, hi>> of the
\* first index taken (0-based) and the index after the last: negative bounds
\* count from the end, both are clamped to 0..n, and lo >= hi is empty.
PyBound(n, i) == IF i < 0 THEN (IF i + n < 0 THEN 0 ELSE i + n)
                 ELSE (IF i > n THEN n ELSE i)
PySlice(n, s, e) ==
    LET lo == PyBound(n, s)
        hi == PyBound(n, e)
    IN  IF hi < lo THEN <<lo, lo>> ELSE <<lo, hi>>

\* frame[y:y+h, x:x+w]
Crop(img, x, y, w, h) ==
    LET rs == PySlice(Rows(img), y, y + h)
        cs == PySlice(Cols(img), x, x + w)
    IN  [shape |-> <<rs[2] - rs[1], cs[2] - cs[1]>>,
         data |-> [r \in 1..(rs[2] - rs[1]) |->
                     [c \in 1..(cs[2] - cs[1]) |-> img.data[rs[1] + r][cs[1] + c]]]]

\* cv2.cvtColor(roi, cv2.COLOR_BGR2GRAY) on 8-bit pixels: the fixed-point form
\* of 0.299 R + 0.587 G + 0.114 B.
GrayOf(p) == (p[3] * 4899 + p[2] * 9617 + p[1] * 1868 + 8192) \div 16384
BGR2GRAY(img) ==
    [shape |-> img.shape,
     data |-> [r \in 1..Rows(img) |->
                 [c \in 1..Cols(img) |-> GrayOf(img.data[r][c])]]]

\* mutant: a pixel at the threshold counts as white
Bright_Inclusive(v, thresh) == v >= thresh

\* cv2.threshold(gray, thresh, 255, cv2.THRESH_BINARY)[1]
Bright(v, thresh) == v > thresh
Threshold(gray, thresh) ==
    [shape |-> gray.shape,
     data |-> [r \in 1..Rows(gray) |->
                 [c \in 1..Cols(gray) |->
                    IF Bright(gray.data[r][c], thresh) THEN MaskMax ELSE 0]]]

\* np.count_nonzero(white_pixels)
CountNonzero(img) ==
    SumImg([shape |-> img.shape,
            data |-> [r \in 1..Rows(img) |->
                        [c \in 1..Cols(img) |->
                           IF img.data[r][c] # 0 THEN 1 ELSE 0]]])

\* a / b >= c / d for ratios <<a, b>>, <<c, d>> with positive denominators
RatioGeq(p, q) == p[1] * q[2] >= q[1] * p[2]
RatioGt(p, q) == p[1] * q[2] > q[1] * p[2]

\* ------------------------------------------------ calculate_image_difference
\* the literal 0.02
SimilarityThreshold == <<2, 100>>

Abs(n) == IF n < 0 THEN -n ELSE n

\* mutant: img1 - img2 on unsigned 8-bit pixels, which wraps around
AbsDiff_Wrapping(img1, img2) ==
    [shape |-> img1.shape,
     data |-> [r \in 1..Rows(img1) |->
                 [c \in 1..Cols(img1) |->
                    (img1.data[r][c] - img2.data[r][c]) % 256]]]

\* cv2.absdiff(img1, img2) of two images of one shape
AbsDiff(img1, img2) ==
    [shape |-> img1.shape,
     data |-> [r \in 1..Rows(img1) |->
                 [c \in 1..Cols(img1) |->
                    Abs(img1.data[r][c] - img2.data[r][c])]]]

\* np.mean(diff) / 255.0, as the ratio <<sum, size * 255>>
DiffRatio(img1, img2) ==
    <<SumImg(AbsDiff(img1, img2)), Size(img1) * MaskMax>>

ShapeDiffers(img1, img2) == img1.shape # img2.shape

\* mutant: the comparison with 0.02 inverted
ExceedsSimilarity_Inverted(ratio) == RatioGt(SimilarityThreshold, ratio)

ExceedsSimilarity(ratio) == RatioGt(ratio, SimilarityThreshold)

\* mutant: masks of different shapes taken to be the same
calculate_image_difference_ShapeSame(img1, img2) ==
    IF img1 = None \/ img2 = None THEN TRUE
    ELSE IF ShapeDiffers(img1, img2) THEN FALSE
    ELSE ExceedsSimilarity(DiffRatio(img1, img2))

calculate_image_difference(img1, img2) ==
    IF img1 = None \/ img2 = None THEN TRUE
    ELSE IF ShapeDiffers(img1, img2) THEN TRUE
    ELSE ExceedsSimilarity(DiffRatio(img1, img2))

\* ------------------------------------------------------------ format_timestamp
\* "HH_MM_SS_mmm" as the tuple of its four numbers
format_timestamp(ms) ==
    LET seconds == ms \div 1000
        milliseconds == ms % 1000
        minutes == seconds \div 60
        hours == minutes \div 60
    IN  <<hours, minutes % 60, seconds % 60, milliseconds>>

\* ------------------------------------------------------------------- frames
\* The frames a capture can supply, by name.  All are 10 x 10 but "small".
White == <<255, 255, 255>>
Black == <<0, 0, 0>>
\* a pixel whose gray value equals the default threshold
AtThreshold == <<200, 200, 200>>
\* a saturated colour, of gray value 150
Green == <<0, 255, 0>>

TopLeft == {<<1, c>> : c \in 1..5}
BottomRight == {<<10, c>> : c \in 6..10}

Lit(h, w, lit, on) ==
    [shape |-> <<h, w>>,
     data |-> [r \in 1..h |->
                 [c \in 1..w |-> IF <<r, c>> \in lit THEN on ELSE Black]]]

FrameIds == {"black", "one", "tl", "tl2", "tl3", "br", "dim", "small"}

Pixels(id) ==
    CASE id = "black" -> Lit(10, 10, {}, White)
      [] id = "one"   -> Lit(10, 10, {<<1, 1>>}, White)
      [] id = "tl"    -> Lit(10, 10, TopLeft, White)
      [] id = "tl2"   -> Lit(10, 10, TopLeft \cup {<<2, 1>>, <<2, 2>>}, White)
      [] id = "tl3"   -> Lit(10, 10, TopLeft \cup {<<2, 1>>, <<2, 2>>, <<2, 3>>}, White)
      [] id = "br"    -> Lit(10, 10, BottomRight, White)
      [] id = "dim"   -> Lit(10, 10, TopLeft, AtThreshold)
      [] id = "small" -> Lit(5, 10, TopLeft, White)
      [] id = "green" -> Lit(10, 10, TopLeft, Green)

\* the regions process_video is called with: None (the whole first frame), the
\* whole 10 x 10 frame, a region reaching beyond the frame, a region outside it
NoRegion == <<>>
Regions == {NoRegion, <<0, 0, 10, 10>>, <<5, 0, 10, 10>>, <<10, 10, 5, 5>>}

\* the values of white_pixel_percent: 0.01 (the default) and 0.05
Percents == {<<1, 100>>, <<5, 100>>}

\* timestamps (CAP_PROP_POS_MSEC) an unconstrained capture can report
Times == {k * 500 : k \in 0..MaxTick}

\* what cap.get(CAP_PROP_FRAME_COUNT) and cap.get(CAP_PROP_FPS) can report
FrameCounts == {0, MaxFrames}
FpsValues == {0, 25}

\* -------------------------------------------------------------------- state
VARIABLES
    pc,                  \* the position in process_video
    live,                \* TRUE: any capture; FALSE: the capture plays `video`
    video,               \* the frames of the file played, as <<[t, id], ...>>
    cap_opened,          \* cap.isOpened()
    cap_released,        \* cap.release() was called
    cap_pos_msec,        \* cap.get(cv2.CAP_PROP_POS_MSEC)
    nread,               \* the number of frames the capture has supplied
    region_str,          \* the --region argument, a sequence of characters
    region,              \* the region parameter, then the local region
    white_threshold,
    white_pixel_percent,
    total_frames,
    fps,
    ret,
    frame,               \* the name of the frame read last (Pixels gives it)
    frame_count,
    last_saved_time,
    last_saved_frame,
    last_progress,
    white_pixels,
    white_ratio,         \* <<white_pixel_count, total_pixels>>
    current_time,
    events,              \* the accepted frames in order, each with its imwrite
                         \* call: [n, time, mask, name, image, written]
    decision             \* what the last loop iteration decided

vars == <<pc, live, video, cap_opened, cap_released, cap_pos_msec, nread,
          region_str, region,
          white_threshold, white_pixel_percent, total_frames, fps, ret, frame,
          frame_count, last_saved_time, last_saved_frame, last_progress,
          white_pixels, white_ratio, current_time, events, decision>>

params == <<live, video, region_str, region, white_threshold, white_pixel_percent>>
capvars == <<cap_pos_msec, nread, ret, frame>>
detection == <<last_saved_time, last_saved_frame>>
locals == <<white_pixels, white_ratio, current_time>>

\* before process_video has done anything
InitLocals ==
    /\ cap_opened = FALSE
    /\ cap_released = FALSE
    /\ cap_pos_msec = 0
    /\ nread = 0
    /\ total_frames = 0
    /\ fps = 0
    /\ ret = FALSE
    /\ frame = "none"
    /\ frame_count = 0
    /\ last_saved_time = 0
    /\ last_saved_frame = None
    /\ last_progress = -1
    /\ white_pixels = None
    /\ white_ratio = <<0, 1>>
    /\ current_time = 0
    /\ events = <<>>
    /\ decision = "NONE"

\* process_video called directly: no command line
Absent == <<"absent">>

InitCommon ==
    /\ InitLocals
    /\ pc = "open"
    /\ region_str = Absent
    /\ region \in Regions
    /\ white_threshold = DefaultWhiteThreshold
    /\ white_pixel_percent \in Percents

Init ==
    /\ InitCommon
    /\ live = TRUE
    /\ video = <<>>

\* ---------------------------------------------------------------- capture
\* What cap.read() can return now: (False, None) or (True, frame), the frame
\* with a timestamp after that of the frame before it.
EndOfStream == [ret |-> FALSE, t |-> 0, id |-> "none"]

CapRead ==
    IF live
    THEN {EndOfStream} \cup
         {[ret |-> TRUE, t |-> t, id |-> id] :
            t \in {u \in Times : nread < MaxFrames /\ (nread = 0 \/ u > cap_pos_msec)},
            id \in FrameIds}
    ELSE IF nread >= Len(video) THEN {EndOfStream}
         ELSE {[ret |-> TRUE, t |-> video[nread + 1].t, id |-> video[nread + 1].id]}

\* the effect of cap.read() returning r
Read(r) ==
    /\ ret' = r.ret
    /\ frame' = r.id
    /\ IF r.ret
       THEN /\ cap_pos_msec' = r.t
            /\ nread' = nread + 1
       ELSE UNCHANGED <<cap_pos_msec, nread>>

\* ------------------------------------------------------------ process_video
\* cap = cv2.VideoCapture(video_path); if not cap.isOpened(): return
Open ==
    /\ pc = "open"
    /\ \E ok \in BOOLEAN :
         /\ cap_opened' = ok
         /\ pc' = IF ok THEN "info" ELSE "return_open_error"
    /\ UNCHANGED <<params, capvars, cap_released, total_frames, fps, frame_count,
                   detection, last_progress, locals, events, decision>>

\* total_frames, fps, duration = total_frames / fps: fps = 0 raises
\* ZeroDivisionError
GetInfo ==
    /\ pc = "info"
    /\ \E n \in FrameCounts, f \in FpsValues :
         /\ total_frames' = n
         /\ fps' = f
         /\ pc' = IF f = 0 THEN "raised" ELSE "first_read"
    /\ UNCHANGED <<params, capvars, cap_opened, cap_released, frame_count,
                   detection, last_progress, locals, events, decision>>

\* the region used from here on: the whole first frame if none was given
DefaultRegion(reg, first) ==
    IF reg = NoRegion
    THEN <<0, 0, Cols(Pixels(first)), Rows(Pixels(first))>>
    ELSE reg

\* ret, frame = cap.read() before the loop; if not ret: return; then the
\* region default and the initial values of the loop's variables
ReadFirst ==
    /\ pc = "first_read"
    /\ \E r \in CapRead :
         /\ Read(r)
         /\ IF ~r.ret
            THEN /\ pc' = "return_read_error"
                 /\ UNCHANGED <<region, frame_count, detection, last_progress>>
            ELSE /\ region' = DefaultRegion(region, r.id)
                 /\ frame_count' = 0
                 /\ last_saved_time' = 0
                 /\ last_saved_frame' = None
                 /\ last_progress' = -1
                 /\ pc' = "loop_read"
    /\ UNCHANGED <<live, video, region_str, white_threshold, white_pixel_percent,
                   cap_opened, cap_released, total_frames, fps, locals, events,
                   decision>>

\* mutant: a failed read is tried again
LoopRead_Retries ==
    /\ pc = "loop_read"
    /\ \E r \in CapRead :
         /\ Read(r)
         /\ pc' = IF r.ret THEN "progress" ELSE "loop_read"
    /\ UNCHANGED <<params, cap_opened, cap_released, total_frames, fps,
                   frame_count, detection, last_progress, locals, events,
                   decision>>

\* while True: ret, frame = cap.read(); if not ret: break
LoopRead ==
    /\ pc = "loop_read"
    /\ \E r \in CapRead :
         /\ Read(r)
         /\ pc' = IF r.ret THEN "progress" ELSE "release"
    /\ UNCHANGED <<params, cap_opened, cap_released, total_frames, fps,
                   frame_count, detection, last_progress, locals, events,
                   decision>>

\* progress = (frame_count * 100) // total_frames: total_frames = 0 raises
\* ZeroDivisionError; last_progress follows progress
Progress ==
    /\ pc = "progress"
    /\ IF total_frames = 0
       THEN /\ pc' = "raised"
            /\ UNCHANGED last_progress
       ELSE /\ last_progress' = (frame_count * 100) \div total_frames
            /\ pc' = "evaluate"
    /\ UNCHANGED <<params, capvars, cap_opened, cap_released, total_frames, fps,
                   frame_count, detection, locals, events, decision>>

\* roi = frame[y:y+h, x:x+w]
Roi(id, reg) == Crop(Pixels(id), reg[1], reg[2], reg[3], reg[4])

\* white_pixels, from roi
WhitePixels(roi, thresh) == Threshold(BGR2GRAY(roi), thresh)

\* white_ratio = white_pixel_count / total_pixels
WhiteRatio(mask) == <<CountNonzero(mask), Size(mask)>>

\* roi, gray, white_pixels, white_ratio, current_time; cv2.cvtColor raises
\* cv2.error on an empty roi
Evaluate ==
    /\ pc = "evaluate"
    /\ LET roi == Roi(frame, region)
       IN  IF Size(roi) = 0
           THEN /\ pc' = "raised"
                /\ UNCHANGED locals
           ELSE /\ white_pixels' = WhitePixels(roi, white_threshold)
                /\ white_ratio' = WhiteRatio(WhitePixels(roi, white_threshold))
                /\ current_time' = cap_pos_msec
                /\ pc' = "decide"
    /\ UNCHANGED <<params, capvars, cap_opened, cap_released, total_frames, fps,
                   frame_count, detection, last_progress, events, decision>>

\* mutant: the boundary excluded
TextPresent_Strict(ratio, percent) == RatioGt(ratio, percent)

\* white_ratio >= white_pixel_percent
TextPresent(ratio, percent) == RatioGeq(ratio, percent)

\* mutant: last_saved_time = 0 read as "nothing saved yet"
GapElapsed_ZeroIsNever(now, last) == last = 0 \/ now - last >= MinGapMs

\* mutant: the gap taken in seconds
GapElapsed_Seconds(now, last) == now - last >= 1

\* current_time - last_saved_time >= 1000
GapElapsed(now, last) == now - last >= MinGapMs

\* the condition of the if at lines 106-108
NewText ==
    /\ TextPresent(white_ratio, white_pixel_percent)
    /\ GapElapsed(current_time, last_saved_time)
    /\ calculate_image_difference(white_pixels, last_saved_frame)

\* last_saved_frame = white_pixels.copy()
Copy(img) == img

\* mutant: a failed imwrite ends the run
Accept_AbortsOnWriteFailure ==
    /\ pc = "decide"
    /\ NewText
    /\ \E written \in BOOLEAN :
         /\ events' = Append(events, [n |-> frame_count,
                                      time |-> current_time,
                                      mask |-> white_pixels,
                                      name |-> format_timestamp(current_time),
                                      image |-> frame,
                                      written |-> written])
         /\ pc' = IF written THEN "loop_read" ELSE "raised"
    /\ last_saved_time' = current_time
    /\ last_saved_frame' = Copy(white_pixels)
    /\ frame_count' = frame_count + 1
    /\ decision' = "ACCEPT"
    /\ UNCHANGED <<params, capvars, cap_opened, cap_released, total_frames, fps,
                   last_progress, locals>>

\* mutant: last_saved_time takes the time elapsed since the frame saved before
Accept_StoresGap ==
    /\ pc = "decide"
    /\ NewText
    /\ \E written \in BOOLEAN :
         events' = Append(events, [n |-> frame_count,
                                   time |-> current_time,
                                   mask |-> white_pixels,
                                   name |-> format_timestamp(current_time),
                                   image |-> frame,
                                   written |-> written])
    /\ last_saved_time' = current_time - last_saved_time
    /\ last_saved_frame' = Copy(white_pixels)
    /\ frame_count' = frame_count + 1
    /\ decision' = "ACCEPT"
    /\ pc' = "loop_read"
    /\ UNCHANGED <<params, capvars, cap_opened, cap_released, total_frames, fps,
                   last_progress, locals>>

\* mutant: last_saved_time is not updated
Accept_KeepsTime ==
    /\ pc = "decide"
    /\ NewText
    /\ \E written \in BOOLEAN :
         events' = Append(events, [n |-> frame_count,
                                   time |-> current_time,
                                   mask |-> white_pixels,
                                   name |-> format_timestamp(current_time),
                                   image |-> frame,
                                   written |-> written])
    /\ last_saved_frame' = Copy(white_pixels)
    /\ frame_count' = frame_count + 1
    /\ decision' = "ACCEPT"
    /\ pc' = "loop_read"
    /\ UNCHANGED <<params, capvars, cap_opened, cap_released, total_frames, fps,
                   last_saved_time, last_progress, locals>>

\* the if holds: cv2.imwrite(filename, roi), whose result is not looked at
\* (image names the frame whose roi is written),
\* last_saved_time, last_saved_frame; then frame_count += 1
Accept ==
    /\ pc = "decide"
    /\ NewText
    /\ \E written \in BOOLEAN :
         events' = Append(events, [n |-> frame_count,
                                   time |-> current_time,
                                   mask |-> white_pixels,
                                   name |-> format_timestamp(current_time),
                                   image |-> frame,
                                   written |-> written])
    /\ last_saved_time' = current_time
    /\ last_saved_frame' = Copy(white_pixels)
    /\ frame_count' = frame_count + 1
    /\ decision' = "ACCEPT"
    /\ pc' = "loop_read"
    /\ UNCHANGED <<params, capvars, cap_opened, cap_released, total_frames, fps,
                   last_progress, locals>>

\* mutant: the time of every frame is stored, accepted or not
Reject_StoresTime ==
    /\ pc = "decide"
    /\ ~NewText
    /\ last_saved_time' = current_time
    /\ frame_count' = frame_count + 1
    /\ decision' = "REJECT"
    /\ pc' = "loop_read"
    /\ UNCHANGED <<params, capvars, cap_opened, cap_released, total_frames, fps,
                   last_saved_frame, last_progress, locals, events>>

\* mutant: the mask of every frame is stored, accepted or not
Reject_StoresMask ==
    /\ pc = "decide"
    /\ ~NewText
    /\ last_saved_frame' = Copy(white_pixels)
    /\ frame_count' = frame_count + 1
    /\ decision' = "REJECT"
    /\ pc' = "loop_read"
    /\ UNCHANGED <<params, capvars, cap_opened, cap_released, total_frames, fps,
                   last_saved_time, last_progress, locals, events>>

\* the if does not hold: frame_count += 1
Reject ==
    /\ pc = "decide"
    /\ ~NewText
    /\ frame_count' = frame_count + 1
    /\ decision' = "REJECT"
    /\ pc' = "loop_read"
    /\ UNCHANGED <<params, capvars, cap_opened, cap_released, total_frames, fps,
                   detection, last_progress, locals, events>>

\* cap.release() and the closing message
Release ==
    /\ pc = "release"
    /\ cap_released' = TRUE
    /\ pc' = "completed"
    /\ UNCHANGED <<params, capvars, cap_opened, total_frames, fps, frame_count,
                   detection, last_progress, locals, events, decision>>

Next ==
    \/ Open
    \/ GetInfo
    \/ ReadFirst
    \/ LoopRead
    \/ Progress
    \/ Evaluate
    \/ Accept
    \/ Reject
    \/ Release

Spec == Init /\ [][Next]_vars

\* the files in the screenshots directory
Screenshots == SelectSeq(events, LAMBDA e : e.written)

\* ----------------------------------------------------- a capture playing a file
\* The files played: four frames at 0, 500, 900 and 1600 ms.
FileTimes == <<0, 500, 900, 1600>>
FileFrames == {"black", "tl", "br"}
Files ==
    {[i \in 1..4 |-> [t |-> FileTimes[i], id |-> f[i]]] :
        f \in [1..4 -> FileFrames]}

InitFile ==
    /\ InitCommon
    /\ live = FALSE
    /\ video \in Files

SpecFile == InitFile /\ [][Next]_vars

\* ------------------------------------------- thresholds other than the default
\* The values of white_threshold: the ends of 0..255, the default and the value
\* below it.
Thresholds == {0, 199, 200, 255}
\* The files played: three frames at 0, 1000 and 1500 ms.
ThresholdFiles ==
    {<<[t |-> 0, id |-> "black"], [t |-> 1000, id |-> a], [t |-> 1500, id |-> b]>> :
        a \in FrameIds \cup {"green"}, b \in {"tl", "dim"}}

InitThreshold ==
    /\ InitLocals
    /\ pc = "open"
    /\ region_str = Absent
    /\ region \in Regions
    /\ white_threshold \in Thresholds
    /\ white_pixel_percent \in Percents
    /\ live = FALSE
    /\ video \in ThresholdFiles

SpecThreshold == InitThreshold /\ [][Next]_vars

\* ------------------------------------------------------------- parse_region
\* Strings are sequences of one-character strings.
DigitChars == <<"0", "1", "2", "3", "4", "5", "6", "7", "8", "9">>
IsDigit(c) == \E i \in 1..10 : DigitChars[i] = c
DigitVal(c) == (CHOOSE i \in 1..10 : DigitChars[i] = c) - 1

\* region_str.split(',')
RECURSIVE SplitFrom(_, _, _)
SplitFrom(str, i, field) ==
    IF i > Len(str) THEN <<field>>
    ELSE IF str[i] = "," THEN <<field>> \o SplitFrom(str, i + 1, <<>>)
    ELSE SplitFrom(str, i + 1, Append(field, str[i]))
Split(str) == SplitFrom(str, 1, <<>>)

\* str.strip() as int() applies it: blanks at both ends are dropped
RECURSIVE StripLeft(_)
StripLeft(str) ==
    IF str # <<>> /\ Head(str) = " " THEN StripLeft(Tail(str)) ELSE str
RECURSIVE StripRight(_)
StripRight(str) ==
    IF str # <<>> /\ str[Len(str)] = " "
    THEN StripRight(SubSeq(str, 1, Len(str) - 1))
    ELSE str
Strip(str) == StripRight(StripLeft(str))

\* the digits of an integer literal: digits, with single underscores between
\* digits allowed
DigitsOk(d) ==
    /\ d # <<>>
    /\ IsDigit(d[1])
    /\ IsDigit(d[Len(d)])
    /\ \A i \in 1..Len(d) : IsDigit(d[i]) \/ d[i] = "_"
    /\ \A i \in 1..(Len(d) - 1) : ~(d[i] = "_" /\ d[i + 1] = "_")

RECURSIVE DigitsValue(_, _)
DigitsValue(d, acc) ==
    IF d = <<>> THEN acc
    ELSE IF Head(d) = "_" THEN DigitsValue(Tail(d), acc)
    ELSE DigitsValue(Tail(d), acc * 10 + DigitVal(Head(d)))

\* int(field): [ok |-> FALSE] stands for ValueError
PyInt(field) ==
    LET t == Strip(field)
        signed == t # <<>> /\ Head(t) \in {"+", "-"}
        d == IF signed THEN Tail(t) ELSE t
    IN  IF DigitsOk(d)
        THEN [ok |-> TRUE,
              value |-> IF signed /\ Head(t) = "-"
                        THEN 0 - DigitsValue(d, 0)
                        ELSE DigitsValue(d, 0)]
        ELSE [ok |-> FALSE, value |-> 0]

\* x, y, w, h = map(int, region_str.split(',')); any exception becomes
\* argparse.ArgumentTypeError ([ok |-> FALSE])
parse_region(str) ==
    LET fields == Split(str)
    IN  IF Len(fields) = 4 /\ \A i \in 1..4 : PyInt(fields[i]).ok
        THEN [ok |-> TRUE, value |-> [i \in 1..4 |-> PyInt(fields[i]).value]]
        ELSE [ok |-> FALSE, value |-> <<>>]

\* the --region arguments tried
RegionArgs ==
    {Absent,
     <<"0", ",", "0", ",", "1", "0", ",", "1", "0">>,
     <<"5", ",", "0", ",", "1", "0", ",", "1", "0">>,
     <<"0", ",", "-", "1", ",", "1", "0", ",", "1", "0">>,
     <<"0", ",", "0", ",", "1", "0", ",", "-", "1">>,
     <<" ", "0", ",", "0", ",", "1", "0", ",", "1", "0">>,
     <<"+", "0", ",", "0", ",", "1", "_", "0", ",", "1", "0">>,
     <<"0", ",", "0", ",", "1", "0">>,
     <<"0", ",", "0", ",", "1", "0", ",", "1", "0", ",", "1">>,
     <<"a", ",", "0", ",", "1", "0", ",", "1", "0">>,
     <<"0", ",", ",", "1", "0", ",", "1", "0">>,
     <<"0", ",", "0", ",", "1", "0", ",", "1", ".", "5">>,
     <<"0", ",", "0", ",", "1", "0", ",", "1", "_">>,
     <<>>}

\* __main__: parser.parse_args() with type=parse_region for --region (argparse
\* ends the program on ArgumentTypeError), then process_video(...)
ParseArgs ==
    /\ pc = "parse"
    /\ IF region_str = Absent
       THEN /\ region' = NoRegion
            /\ pc' = "open"
       ELSE IF parse_region(region_str).ok
       THEN /\ region' = parse_region(region_str).value
            /\ pc' = "open"
       ELSE /\ region' = region
            /\ pc' = "usage_error"
    /\ UNCHANGED <<live, video, region_str, white_threshold, white_pixel_percent,
                   capvars, cap_opened, cap_released, total_frames, fps,
                   frame_count, detection, last_progress, locals, events,
                   decision>>

\* the files played when started from the command line
MainFiles == {f \in Files : f[1].id = "black" /\ f[2].id = "tl"}

InitMain ==
    /\ InitLocals
    /\ pc = "parse"
    /\ region_str \in RegionArgs
    /\ region = NoRegion
    /\ white_threshold = DefaultWhiteThreshold
    /\ white_pixel_percent \in Percents
    /\ live = FALSE
    /\ video \in MainFiles

NextMain ==
    \/ ParseArgs
    \/ Next

SpecMain == InitMain /\ [][NextMain]_vars

\* ================================================================== claims
Last(seq) == seq[Len(seq)]

\* the loop body has just run for the frame whose values the locals hold
JustDecided == pc = "loop_read" /\ decision # "NONE"

\* the number of pixels in which two masks of one shape differ
Differing(m1, m2) ==
    Cardinality({rc \in (1..Rows(m1)) \X (1..Cols(m1)) :
                    m1.data[rc[1]][rc[2]] # m2.data[rc[1]][rc[2]]})

\* more than 2% of the pixels differ
DiffersOverTwoPercent(m1, m2) == Differing(m1, m2) * 100 > 2 * Size(m1)

\* the frame being decided has a white-pixel ratio of at least P
Qualifies == white_ratio[1] * white_pixel_percent[2]
                >= white_pixel_percent[1] * white_ratio[2]

\* the frame being decided comes at least 1000 ms after the last accepted one
AfterFloor == events # <<>> /\ current_time - Last(events).time >= 1000

\* the step accepts the frame being decided
Accepted == decision' = "ACCEPT" /\ Len(events') = Len(events) + 1
\* the step rejects it and touches neither the detection state nor the files
Rejected == decision' = "REJECT" /\ events' = events /\ UNCHANGED detection

\* C1: the first frame evaluated with white_ratio >= white_pixel_percent is
\* accepted whatever its timestamp and mask: whenever the loop body has just
\* run for a frame with white_ratio >= white_pixel_percent, some frame (this one
\* or an earlier one) has been accepted.
C1_FirstFrameAccepted == (JustDecided /\ Qualifies) => events # <<>>

\* C2: with P = 0.01 the file of frames at 0 ms (black), 500 ms (5% bright, top
\* left), 900 ms (the same mask) and 1600 ms (5% bright, bottom right) yields
\* exactly two screenshots, for the frames at 500 ms and at 1600 ms.
Scenario ==
    <<[t |-> 0, id |-> "black"], [t |-> 500, id |-> "tl"],
      [t |-> 900, id |-> "tl"], [t |-> 1600, id |-> "br"]>>
C2_Scenario ==
    (/\ ~live
     /\ video = Scenario
     /\ white_pixel_percent = <<1, 100>>
     /\ region = <<0, 0, 10, 10>>
     /\ pc = "completed"
     /\ \A i \in 1..Len(events) : events[i].written)
    => [i \in 1..Len(Screenshots) |-> Screenshots[i].time] = <<500, 1600>>

\* C3: after a frame is accepted at t1, no frame at t2 with t2 - t1 < 1000 is
\* accepted, however different its mask: any two accepted frames are at least
\* 1000 ms apart.
C3_RateFloor ==
    \A i, j \in 1..Len(events) :
        i < j => events[j].time - events[i].time >= 1000
\* a qualifying frame less than 1000 ms after the last accepted one, with a mask
\* differing from it in more than 2% of the pixels, was rejected
C3_Witness ==
    /\ JustDecided /\ decision = "REJECT" /\ Qualifies
    /\ events # <<>>
    /\ current_time - Last(events).time < 1000
    /\ white_pixels.shape = Last(events).mask.shape
    /\ DiffersOverTwoPercent(white_pixels, Last(events).mask)

\* C4: a qualifying frame at least 1000 ms after the last accepted frame whose
\* mask is identical to that frame's mask is rejected: no file is written and
\* last_saved_time and last_saved_frame keep their values.
C4_SimilaritySuppression ==
    [][(pc = "decide" /\ Qualifies /\ AfterFloor
            /\ white_pixels = Last(events).mask) => Rejected]_vars
\* such a frame was rejected, with at least one other frame evaluated since the
\* accepted one
C4_Witness ==
    /\ JustDecided /\ decision = "REJECT" /\ Qualifies /\ AfterFloor
    /\ white_pixels = Last(events).mask
    /\ frame_count - 1 > Last(events).n + 1

\* C5: for a qualifying frame at least 1000 ms after the last accepted frame and
\* with a mask of the same shape, the mean absolute difference over 255 equals
\* the fraction of differing pixels, and the frame is accepted if more than 2%
\* of the pixels differ.
C5_SimilarityAcceptance ==
    [][(pc = "decide" /\ Qualifies /\ AfterFloor
            /\ white_pixels.shape = Last(events).mask.shape)
       => LET last == Last(events).mask
              ratio == DiffRatio(white_pixels, last)
          IN  /\ ratio[1] * Size(last) = Differing(white_pixels, last) * ratio[2]
              /\ DiffersOverTwoPercent(white_pixels, last) => Accepted]_vars
\* a frame differing from the last accepted mask in over 2% but at most 3% of
\* the pixels was accepted
C5_Witness ==
    /\ JustDecided /\ decision = "ACCEPT" /\ Len(events) >= 2
    /\ LET m2 == events[Len(events)].mask
           m1 == events[Len(events) - 1].mask
       IN  /\ m1.shape = m2.shape
           /\ DiffersOverTwoPercent(m2, m1)
           /\ Differing(m2, m1) * 100 <= 3 * Size(m1)

\* C6: a frame passes the gate iff white_ratio >= white_pixel_percent: a frame
\* below P is rejected and changes nothing, whatever its time and mask, and a
\* frame at or above P (P itself included) is accepted when nothing else stands
\* in its way (the 1000 ms since last_saved_time have passed and there is no
\* stored mask, or one of another shape, or one differing in over 2%).
C6_TextPresenceGate ==
    [][pc = "decide" =>
         /\ ~Qualifies => Rejected
         /\ (/\ Qualifies
             /\ current_time - last_saved_time >= 1000
             /\ \/ last_saved_frame = None
                \/ white_pixels.shape # last_saved_frame.shape
                \/ DiffersOverTwoPercent(white_pixels, last_saved_frame))
            => Accepted]_vars
\* a frame whose ratio is exactly P was accepted
C6_Witness ==
    /\ JustDecided /\ decision = "ACCEPT"
    /\ white_ratio[1] * white_pixel_percent[2]
         = white_pixel_percent[1] * white_ratio[2]

\* C7: a qualifying frame at least 1000 ms after the last accepted frame whose
\* mask has another shape than that frame's mask is accepted.
C7_DimensionMismatch ==
    [][(pc = "decide" /\ Qualifies /\ AfterFloor
            /\ white_pixels.shape # Last(events).mask.shape) => Accepted]_vars
\* a frame was accepted whose mask has another shape than the mask accepted
\* before it
C7_Witness ==
    /\ JustDecided /\ decision = "ACCEPT" /\ Len(events) >= 2
    /\ events[Len(events)].mask.shape # events[Len(events) - 1].mask.shape

\* C8: an iteration that does not accept its frame (the frame is below P, or
\* less than 1000 ms after last_saved_time, or its mask differs from
\* last_saved_frame in at most 2% of the pixels) leaves last_saved_time and
\* last_saved_frame as they were and writes no file.
C8_RejectKeepsState ==
    [][(/\ pc = "decide"
        /\ \/ decision' = "REJECT"
           \/ ~Qualifies
           \/ current_time - last_saved_time < 1000
           \/ /\ last_saved_frame # None
              /\ white_pixels.shape = last_saved_frame.shape
              /\ ~DiffersOverTwoPercent(white_pixels, last_saved_frame))
       => Rejected]_vars
\* a qualifying frame after the floor was rejected for a mask differing from the
\* stored one in some but at most 2% of the pixels
C8_Witness ==
    /\ JustDecided /\ decision = "REJECT" /\ Qualifies /\ AfterFloor
    /\ white_pixels.shape = last_saved_frame.shape
    /\ Differing(white_pixels, last_saved_frame) > 0

\* C9: once a frame has been accepted, last_saved_time is the timestamp of the
\* frame accepted last and last_saved_frame the mask it had then, whatever
\* masks were computed since.
C9_StateTracksLastAccepted ==
    events # <<>> =>
        /\ last_saved_time = Last(events).time
        /\ last_saved_frame = Last(events).mask
\* a later frame with another mask was evaluated and rejected
C9_Witness ==
    /\ JustDecided /\ decision = "REJECT" /\ events # <<>>
    /\ white_pixels # last_saved_frame
    /\ last_saved_frame = Last(events).mask

\* C10: a region reaching beyond the first frame makes process_video fail at
\* startup: once the first frame is read the run is over, no frame is evaluated
\* and no event is recorded.
RegionExceeds(reg, id) ==
    /\ reg # NoRegion
    /\ \/ reg[1] + reg[3] > Cols(Pixels(id))
       \/ reg[2] + reg[4] > Rows(Pixels(id))
C10_RegionOutOfBounds ==
    /\ (nread = 1 /\ ret /\ RegionExceeds(region, frame))
            => pc \notin {"loop_read", "progress", "evaluate", "decide"}
    /\ (\A id \in FrameIds : RegionExceeds(region, id))
            => (decision = "NONE" /\ events = <<>>)

\* C11: a failed read inside the loop ends the loop: the read is not tried
\* again, no further frame is read or evaluated, the events recorded so far
\* stay, the capture is released and the run completes.
C11_ReadFailureEndsStream ==
    [][/\ (pc = "loop_read" /\ ~ret')
            => /\ pc' = "release"
               /\ UNCHANGED <<nread, frame_count, events, detection>>
       /\ pc = "release"
            => /\ pc' = "completed"
               /\ cap_released'
               /\ UNCHANGED <<nread, frame_count, events, detection>>
       /\ pc = "completed" => UNCHANGED vars]_vars
\* a run that recorded an event and then had a read fail, before the capture
\* had supplied all the frames it could, has completed
C11_Witness ==
    /\ pc = "completed" /\ cap_released /\ ~ret
    /\ events # <<>>
    /\ frame_count >= 1
    /\ nread < MaxFrames

\* C12: a failed imwrite does not end the run: the iteration finishes as any
\* other (frame_count is advanced, the next frame is read), and a later
\* qualifying frame that is at least 1000 ms after last_saved_time and whose
\* mask differs from last_saved_frame is accepted.
C12_WriteFailureContinues ==
    [][/\ (pc = "decide" /\ decision' = "ACCEPT" /\ ~Last(events').written)
            => (pc' = "loop_read" /\ frame_count' = frame_count + 1)
       /\ (/\ pc = "decide"
           /\ \E i \in 1..Len(events) : ~events[i].written
           /\ Qualifies
           /\ current_time - last_saved_time >= 1000
           /\ \/ white_pixels.shape # last_saved_frame.shape
              \/ DiffersOverTwoPercent(white_pixels, last_saved_frame))
            => Accepted]_vars
\* after an event whose file was not written, a later frame was accepted and
\* its file written
C12_Witness ==
    /\ JustDecided /\ decision = "ACCEPT" /\ Len(events) >= 2
    /\ ~events[Len(events) - 1].written
    /\ Last(events).written

\* C13: last_saved_time never decreases.
C13_SavedTimeMonotonic == [][last_saved_time' >= last_saved_time]_vars
\* last_saved_time has been assigned twice in the loop
C13_Witness ==
    /\ Len(events) >= 2
    /\ last_saved_time = Last(events).time
    /\ last_saved_time > events[Len(events) - 1].time

\* C14: the mask of an evaluated frame has the shape of the region, a pixel of
\* it is 255 if the gray value of the region's pixel is greater than
\* white_threshold and 0 otherwise (a gray value equal to the threshold gives
\* 0), and white_ratio is the number of such pixels over the number of pixels.
\* The mask and the ratio are thus determined by the region and the threshold.
C14_Classification ==
    pc = "decide" =>
        LET gray == BGR2GRAY(Roi(frame, region))
            px == (1..Rows(gray)) \X (1..Cols(gray))
        IN  /\ white_pixels.shape = gray.shape
            /\ \A rc \in px :
                 white_pixels.data[rc[1]][rc[2]] =
                    IF gray.data[rc[1]][rc[2]] > white_threshold THEN 255 ELSE 0
            /\ white_ratio =
                 <<Cardinality({rc \in px : gray.data[rc[1]][rc[2]] > white_threshold}),
                   Cardinality(px)>>
\* a region with pixels whose gray value equals a threshold above 0 was
\* classified
C14_Witness ==
    /\ pc = "decide"
    /\ white_threshold > 0
    /\ LET gray == BGR2GRAY(Roi(frame, region))
       IN  \E r \in 1..Rows(gray), c \in 1..Cols(gray) :
              /\ gray.data[r][c] = white_threshold
              /\ white_pixels.data[r][c] = 0

\* C15: parse_region lets through only four comma-separated non-negative
\* integers: whenever process_video has been started with a --region argument,
\* the region is four numbers, none of them negative.
C15_ParseRegion ==
    (region_str # Absent /\ pc \notin {"parse", "usage_error"})
        => /\ Len(region) = 4
           /\ \A i \in 1..4 : region[i] >= 0

\* C16: every frame the capture supplies, the first included, is evaluated
\* before the next is read: between two reads of the loop, and when the loop is
\* left, as many frames have been evaluated as were supplied.
C16_EveryFrameEvaluated ==
    pc \in {"loop_read", "release", "completed"} => frame_count = nread

\* C17: total_frames, frame_count and last_progress neither change nor prevent
\* a decision, whatever total frame count (0 included) the capture reports: the
\* progress step always hands the frame on to its evaluation and leaves the
\* detection state and the events alone.
C17_ProgressNeverPrevents ==
    [][pc = "progress"
         => (pc' = "evaluate" /\ UNCHANGED <<detection, events, decision>>)]_vars

\* C18: no frame with a timestamp below 1000 ms is accepted: every accepted
\* timestamp is at least 1000, last_saved_time is 0 or at least 1000, and
\* last_saved_frame is None exactly while last_saved_time is 0.
C18_NothingBeforeOneSecond ==
    /\ \A i \in 1..Len(events) : events[i].time >= 1000
    /\ last_saved_time = 0 \/ last_saved_time >= 1000
    /\ (last_saved_frame = None) <=> (last_saved_time = 0)
\* a qualifying frame before 1000 ms was rejected although nothing had been
\* accepted
C18_Witness ==
    /\ JustDecided /\ decision = "REJECT" /\ Qualifies
    /\ current_time < 1000
    /\ last_saved_frame = None
    /\ events = <<>>

\* C19: the decision for a frame is a function of its own mask and timestamp
\* and of the time and mask of the frame accepted last (of nothing else when
\* none was accepted): the frame is accepted iff its mask has at least P white
\* pixels, it is at least 1000 ms after the frame accepted last (after 0 when
\* there is none) and its mask differs from that frame's mask in shape or in
\* more than 2% of the pixels.  Frames rejected in between play no part.
OwnRatio(mask) ==
    <<Cardinality({rc \in (1..Rows(mask)) \X (1..Cols(mask)) :
                      mask.data[rc[1]][rc[2]] = 255}),
      Rows(mask) * Cols(mask)>>
DecidedFromLastAccepted(mask, t, accepted) ==
    /\ OwnRatio(mask)[1] * white_pixel_percent[2]
          >= white_pixel_percent[1] * OwnRatio(mask)[2]
    /\ IF accepted = <<>>
       THEN t >= 1000
       ELSE /\ t - Last(accepted).time >= 1000
            /\ \/ mask.shape # Last(accepted).mask.shape
               \/ DiffersOverTwoPercent(mask, Last(accepted).mask)
C19_RejectedFramesNoInfluence ==
    [][pc = "decide"
         => /\ decision' \in {"ACCEPT", "REJECT"}
            /\ decision' = "ACCEPT"
                 <=> DecidedFromLastAccepted(white_pixels, current_time, events)
            /\ decision' = "ACCEPT" <=> Len(events') = Len(events) + 1]_vars
\* a frame was accepted against the frame accepted before it with a rejected
\* frame in between
C19_Witness ==
    /\ JustDecided /\ decision = "ACCEPT" /\ Len(events) >= 2
    /\ Last(events).n > events[Len(events) - 1].n + 1

\* C20: when the capture opens and reports at least one frame, process_video
\* ends by leaving the loop at the first failed read with the capture released
\* and frame_count equal to the number of frames evaluated in the loop: it
\* ends in no other way.
C20_TerminatesReleased ==
    (/\ cap_opened
     /\ total_frames >= 1
     /\ pc \in {"return_read_error", "raised", "completed"})
    => /\ pc = "completed"
       /\ cap_released
       /\ ~ret
       /\ frame_count = nread - 1

====
